---- MODULE Spec2Model ----
(***************************************************************************)
(* State-machine model of the MIDI humanizer (package humanizer: presets,  *)
(* core, basic, piano_performance).                                        *)
(*                                                                         *)
(* A Note is the object the source reads and assigns through the four     *)
(* attributes start, end, pitch, velocity; each attribute is modelled as   *)
(* an independent field, as the source text assigns them.                  *)
(*                                                                         *)
(* Float quantities of the preset table are held in fixed point:           *)
(*   beats          in units of 1/BeatScale beat,                          *)
(*   probabilities  in units of 1/ProbScale,                               *)
(*   hand factors   in units of 1/FactorScale,                             *)
(*   beat weights   in units of 1/WeightScale,                             *)
(* and Python's int() is truncation toward zero (Trunc).                   *)
(***************************************************************************)
EXTENDS Integers, Sequences, FiniteSets, TLC

VARIABLES
    HUMANIZATION_METHODS,  \* the module-level preset table (a mutable dict)
    music,                 \* the Music object: resolution and tracks of notes
    input,                 \* the Music object as it was passed in
    call,                  \* the running call: function, method, preset_name
    pc,                    \* position of the running call
    err,                   \* the exception raised, or NoError
    min_duration_ticks,    \* local of both pipelines, argument of the resolver
    track_idx,             \* position of the per-track loop
    chords,                \* local `chords` of the current track (note indices)
    chord_idx,             \* position of the per-chord loop
    roll,                  \* locals of the last per-chord loop body
    result                 \* value returned by a directly called function

vars == <<HUMANIZATION_METHODS, music, input, call, pc, err,
          min_duration_ticks, track_idx, chords, chord_idx, roll, result>>

----------------------------------------------------------------------------
(* Fixed-point units and arithmetic helpers *)

BeatScale == 100000
ProbScale == 1000
FactorScale == 10
WeightScale == 100

Max(a, b) == IF a >= b THEN a ELSE b
Min(a, b) == IF a <= b THEN a ELSE b
Abs(a) == IF a >= 0 THEN a ELSE -a

\* Python int(a / b) for b > 0: truncation toward zero
Trunc(a, b) == IF a >= 0 THEN a \div b ELSE -((-a) \div b)

Range(s) == {s[i] : i \in DOMAIN s}

\* dict.get(key, default)
Get(d, key, default) == IF key \in DOMAIN d THEN d[key] ELSE default

\* d[key] = value on a dict
Put(d, key, value) ==
    [k \in (DOMAIN d) \cup {key} |-> IF k = key THEN value ELSE d[k]]

----------------------------------------------------------------------------
(* presets.py: the preset table.  A dict is its key order plus its values; *)
(* the "name" and "description" strings are never read by the pipelines    *)
(* and are left out.                                                        *)

BasicPreset(vel, on, off, rollTiming) ==
    [velocity_range |-> vel,
     noteon_timing_range |-> on,
     noteoff_timing_range |-> off,
     min_duration_beats |-> 3125,
     chord_roll_probability |-> 0,
     chord_roll_timing |-> rollTiming]

PianoPreset(vel, on, off, prob, probStd, mean, std, lhTiming, rhVel) ==
    [velocity_range |-> vel,
     noteon_timing_range |-> on,
     noteoff_timing_range |-> off,
     min_duration_beats |-> 3125,
     chord_roll_probability |-> prob,
     chord_roll_probability_std |-> probStd,
     chord_roll_mean_timing |-> mean,
     chord_roll_std_timing |-> std,
     hand_separation_enabled |-> TRUE,
     left_hand_timing_factor |-> lhTiming,
     right_hand_velocity_factor |-> rhVel,
     beat_accenting |-> TRUE,
     chord_velocity_correlation |-> TRUE]

PresetTable ==
    [basic |->
        [keys |-> <<"minimal", "medium", "aggressive">>,
         presets |->
            [minimal |-> BasicPreset(5, 500, 200, 200),
             medium |-> BasicPreset(10, 1000, 500, 400),
             aggressive |-> BasicPreset(20, 2000, 1000, 600)]],
     piano_performance |->
        [keys |-> <<"classical", "romantic", "jazz">>,
         presets |->
            [classical |-> PianoPreset(12, 800, 400, 50, 15, 20, 10, 7, 12),
             romantic |-> PianoPreset(18, 1500, 800, 80, 25, 30, 20, 6, 14),
             jazz |-> Put(PianoPreset(15, 1200, 600, 120, 40, 40, 30, 8, 13),
                          "jazz_chord_emphasis", TRUE)]]]

NoError == [exc |-> "none", text |-> "", available |-> <<>>]

\* variant listing the presets of the first method whatever the method
PresetError_FirstMethod(table, method, preset_name) ==
    IF method \notin DOMAIN table
    THEN [exc |-> "ValueError", text |-> "Unknown method", available |-> <<>>]
    ELSE IF preset_name \notin DOMAIN table[method].presets
    THEN [exc |-> "ValueError", text |-> "Unknown preset",
          available |-> table["basic"].keys]
    ELSE NoError

\* get_preset_settings: the exception it raises, or NoError
PresetError(table, method, preset_name) ==
    IF method \notin DOMAIN table
    THEN [exc |-> "ValueError", text |-> "Unknown method", available |-> <<>>]
    ELSE IF preset_name \notin DOMAIN table[method].presets
    THEN [exc |-> "ValueError", text |-> "Unknown preset",
          available |-> table[method].keys]
    ELSE NoError

\* get_preset_settings: the dict it returns (the table's own entry, no copy)
get_preset_settings(table, method, preset_name) ==
    table[method].presets[preset_name]

\* the object the local `settings` of the running call is bound to
Settings == get_preset_settings(HUMANIZATION_METHODS, call.method, call.preset_name)

\* int(beats * resolution), beats in fixed point
Ticks(beats, resolution) == Trunc(beats * resolution, BeatScale)

----------------------------------------------------------------------------
(* Random draws.  random.randint(lo, hi) may return any integer of         *)
(* lo..hi; the model draws the two ends of the interval.  A draw is named  *)
(* by a selector so that a family of draws can be chosen at once.          *)

DrawSel == {0, 1}

RandIntAt(lo, hi, sel) == IF sel = 0 THEN lo ELSE hi

RandInt(lo, hi) == {RandIntAt(lo, hi, sel) : sel \in DrawSel}

----------------------------------------------------------------------------
(* core.py: resolve_overlapping_notes *)

\* the distinct pitches of a note list in order of first occurrence
\* (key order of notes_by_pitch)
RECURSIVE PitchKeys(_, _, _)
PitchKeys(notes, i, acc) ==
    IF i > Len(notes) THEN acc
    ELSE IF notes[i].pitch \in Range(acc) THEN PitchKeys(notes, i + 1, acc)
    ELSE PitchKeys(notes, i + 1, Append(acc, notes[i].pitch))

\* notes_by_pitch[pitch]: indices of the notes of one pitch, in track order
RECURSIVE PitchLane(_, _, _)
PitchLane(notes, pitch, i) ==
    IF i > Len(notes) THEN <<>>
    ELSE IF notes[i].pitch = pitch
         THEN <<i>> \o PitchLane(notes, pitch, i + 1)
         ELSE PitchLane(notes, pitch, i + 1)

\* insert index x into a lane sorted by start, after every entry whose
\* start is not greater (list.sort is stable)
RECURSIVE InsertByStart(_, _, _)
InsertByStart(notes, sorted, x) ==
    IF sorted = <<>> THEN <<x>>
    ELSE IF notes[Head(sorted)].start <= notes[x].start
         THEN <<Head(sorted)>> \o InsertByStart(notes, Tail(sorted), x)
         ELSE <<x>> \o sorted

\* variant that sorts the lane by note end: key=lambda n: n.end
RECURSIVE InsertByEnd(_, _, _)
InsertByEnd(notes, sorted, x) ==
    IF sorted = <<>> THEN <<x>>
    ELSE IF notes[Head(sorted)].end <= notes[x].end
         THEN <<Head(sorted)>> \o InsertByEnd(notes, Tail(sorted), x)
         ELSE <<x>> \o sorted

RECURSIVE SortByStart_ByEnd(_, _)
SortByStart_ByEnd(notes, lane) ==
    IF lane = <<>> THEN <<>>
    ELSE InsertByEnd(notes, SortByStart_ByEnd(notes, SubSeq(lane, 1, Len(lane) - 1)),
                     lane[Len(lane)])

\* variant that scans the lane in track order, without sorting it
SortByStart_TrackOrder(notes, lane) == lane

\* notes.sort(key=lambda n: n.start)
RECURSIVE SortByStart(_, _)
SortByStart(notes, lane) ==
    IF lane = <<>> THEN <<>>
    ELSE InsertByStart(notes, SortByStart(notes, SubSeq(lane, 1, Len(lane) - 1)),
                       lane[Len(lane)])

\* lines 281-283: the end an overlapping note is shortened to
ShortenedEnd_PastNext(start, next_start, minTicks) ==
    Max(start + minTicks, next_start + 1)

ShortenedEnd(start, next_start, minTicks) ==
    Max(start + minTicks, next_start - 1)

\* variant whose pass stops one pair early: range(len(notes) - 2)
RECURSIVE ResolveLane_SkipLast(_, _, _, _)
ResolveLane_SkipLast(notes, lane, i, minTicks) ==
    IF i > Len(lane) - 2 THEN notes
    ELSE LET cur == lane[i]
             nxt == lane[i + 1]
         IN IF notes[cur].end > notes[nxt].start
            THEN ResolveLane_SkipLast(
                    [notes EXCEPT ![cur].end =
                        ShortenedEnd(notes[cur].start, notes[nxt].start, minTicks)],
                    lane, i + 1, minTicks)
            ELSE ResolveLane_SkipLast(notes, lane, i + 1, minTicks)

\* the forward pass over adjacent pairs of one sorted lane
RECURSIVE ResolveLane(_, _, _, _)
ResolveLane(notes, lane, i, minTicks) ==
    IF i > Len(lane) - 1 THEN notes
    ELSE LET cur == lane[i]
             nxt == lane[i + 1]
         IN IF notes[cur].end > notes[nxt].start
            THEN ResolveLane(
                    [notes EXCEPT ![cur].end =
                        ShortenedEnd(notes[cur].start, notes[nxt].start, minTicks)],
                    lane, i + 1, minTicks)
            ELSE ResolveLane(notes, lane, i + 1, minTicks)

\* the loop over the pitch lanes of one track
RECURSIVE ResolveLanes(_, _, _, _)
ResolveLanes(notes, keys, k, minTicks) ==
    IF k > Len(keys) THEN notes
    ELSE ResolveLanes(
            ResolveLane(notes, SortByStart(notes, PitchLane(notes, keys[k], 1)),
                        1, minTicks),
            keys, k + 1, minTicks)

\* variant that sorts the track's own list by onset before the pass:
\* track.notes.sort(key=lambda n: n.start)
ResolveTrack_SortsTrack(notes, minTicks) ==
    LET order == SortByStart(notes, [i \in DOMAIN notes |-> i])
        sorted == [i \in DOMAIN notes |-> notes[order[i]]]
    IN ResolveLanes(sorted, PitchKeys(sorted, 1, <<>>), 1, minTicks)

ResolveTrack(notes, minTicks) ==
    ResolveLanes(notes, PitchKeys(notes, 1, <<>>), 1, minTicks)

\* variant that builds the pitch lanes over the notes of all the tracks
resolve_overlapping_notes_AcrossTracks(m, minTicks) ==
    LET RECURSIVE Flat(_)
        Flat(t) == IF t = 0 THEN <<>> ELSE Flat(t - 1) \o m.tracks[t]
        resolved == ResolveTrack(Flat(Len(m.tracks)), minTicks)
    IN [m EXCEPT !.tracks =
          [t \in DOMAIN m.tracks |->
              [i \in DOMAIN m.tracks[t] |-> resolved[Len(Flat(t - 1)) + i]]]]

\* resolve_overlapping_notes(music, min_duration_ticks): every track in turn
resolve_overlapping_notes(m, minTicks) ==
    [m EXCEPT !.tracks =
        [t \in DOMAIN m.tracks |-> ResolveTrack(m.tracks[t], minTicks)]]

----------------------------------------------------------------------------
(* core.py: detect_chords, group_notes_by_timing *)

\* nearest-match variant: index of the group whose key is nearest to
\* `start` among those within tolerance, or 0
FirstGroupWithin_Nearest(groups, start, tolerance, g) ==
    LET within == { k \in g..Len(groups) : Abs(start - groups[k].key) <= tolerance }
    IN IF within = {} THEN 0
       ELSE CHOOSE k \in within :
              \A j \in within :
                 \/ Abs(start - groups[k].key) < Abs(start - groups[j].key)
                 \/ (Abs(start - groups[k].key) = Abs(start - groups[j].key) /\ k <= j)

\* index of the first group whose key is within tolerance of `start`, or 0
RECURSIVE FirstGroupWithin(_, _, _, _)
FirstGroupWithin(groups, start, tolerance, g) ==
    IF g > Len(groups) THEN 0
    ELSE IF Abs(start - groups[g].key) <= tolerance THEN g
    ELSE FirstGroupWithin(groups, start, tolerance, g + 1)

\* index of the group whose key equals `start`, or 0 (note_groups[note.start])
RECURSIVE GroupWithKey(_, _, _)
GroupWithKey(groups, start, g) ==
    IF g > Len(groups) THEN 0
    ELSE IF groups[g].key = start THEN g
    ELSE GroupWithKey(groups, start, g + 1)

\* the defaultdict built by the loop over the notes: groups in key order,
\* each with its key and its members (indices into `notes`) in input order
RECURSIVE GroupLoop(_, _, _, _, _)
GroupLoop(notes, idxs, tolerance, i, groups) ==
    IF i > Len(idxs) THEN groups
    ELSE LET n == idxs[i]
             found == FirstGroupWithin(groups, notes[n].start, tolerance, 1)
             same == GroupWithKey(groups, notes[n].start, 1)
         IN IF found # 0
            THEN GroupLoop(notes, idxs, tolerance, i + 1,
                    [groups EXCEPT ![found].members = Append(@, n)])
            ELSE IF same # 0
            THEN GroupLoop(notes, idxs, tolerance, i + 1,
                    [groups EXCEPT ![same].members = Append(@, n)])
            ELSE GroupLoop(notes, idxs, tolerance, i + 1,
                    Append(groups, [key |-> notes[n].start, members |-> <<n>>]))

group_notes_by_timing(notes, idxs, timing_tolerance_ticks) ==
    GroupLoop(notes, idxs, timing_tolerance_ticks, 1, <<>>)

IsChord(g) == Len(g.members) >= 3

\* detect_chords: the member lists of the groups of 3+ notes
detect_chords(notes, tolerance_ticks) ==
    LET kept == SelectSeq(GroupLoop(notes, [i \in 1..Len(notes) |-> i],
                                    tolerance_ticks, 1, <<>>), IsChord)
    IN [g \in DOMAIN kept |-> kept[g].members]

----------------------------------------------------------------------------
(* core.py / piano_performance.py: roll orders *)

\* insert index x into a list sorted by pitch, after every entry whose
\* pitch is not greater (sorted() is stable)
RECURSIVE InsertByPitch(_, _, _)
InsertByPitch(notes, sorted, x) ==
    IF sorted = <<>> THEN <<x>>
    ELSE IF notes[Head(sorted)].pitch <= notes[x].pitch
         THEN <<Head(sorted)>> \o InsertByPitch(notes, Tail(sorted), x)
         ELSE <<x>> \o sorted

\* sorted(chord_notes, key=lambda n: n.pitch)
RECURSIVE SortByPitch(_, _)
SortByPitch(notes, chord) ==
    IF chord = <<>> THEN <<>>
    ELSE InsertByPitch(notes, SortByPitch(notes, SubSeq(chord, 1, Len(chord) - 1)),
                       chord[Len(chord)])

Reverse(s) == [i \in DOMAIN s |-> s[Len(s) + 1 - i]]

\* variant that steps up on odd i and down on even i
RECURSIVE InsideOut_UpFirst(_, _, _)
InsideOut_UpFirst(sorted, i, acc) ==
    IF i >= Len(sorted) THEN acc
    ELSE LET mid == Len(sorted) \div 2
             idx == IF i % 2 = 0 THEN mid - i \div 2 ELSE mid + (i + 1) \div 2
         IN IF 0 <= idx /\ idx < Len(sorted)
            THEN InsideOut_UpFirst(sorted, i + 1, Append(acc, sorted[idx + 1]))
            ELSE InsideOut_UpFirst(sorted, i + 1, acc)

\* the inside_out loop; i and idx are the 0-based values of the source
RECURSIVE InsideOut(_, _, _)
InsideOut(sorted, i, acc) ==
    IF i >= Len(sorted) THEN acc
    ELSE LET mid == Len(sorted) \div 2
             idx == IF i % 2 = 0 THEN mid + i \div 2 ELSE mid - (i + 1) \div 2
         IN IF 0 <= idx /\ idx < Len(sorted)
            THEN InsideOut(sorted, i + 1, Append(acc, sorted[idx + 1]))
            ELSE InsideOut(sorted, i + 1, acc)

\* variant whose loop stops when the two ends meet: while left < right
RECURSIVE OutsideIn_StrictBound(_, _, _, _, _)
OutsideIn_StrictBound(sorted, left, right, start_left, acc) ==
    IF left >= right THEN acc
    ELSE IF start_left
         THEN OutsideIn_StrictBound(sorted, left + 1, right, FALSE,
                                    Append(acc, sorted[left + 1]))
         ELSE OutsideIn_StrictBound(sorted, left, right - 1, TRUE,
                                    Append(acc, sorted[right + 1]))

\* the outside_in loop; left and right are the 0-based values of the source
RECURSIVE OutsideIn(_, _, _, _, _)
OutsideIn(sorted, left, right, start_left, acc) ==
    IF left > right THEN acc
    ELSE IF start_left
         THEN OutsideIn(sorted, left + 1, right, FALSE, Append(acc, sorted[left + 1]))
         ELSE OutsideIn(sorted, left, right - 1, TRUE, Append(acc, sorted[right + 1]))

\* note_order for a pattern name
NoteOrder(notes, chord, roll_pattern) ==
    LET sorted_notes == SortByPitch(notes, chord)
    IN CASE roll_pattern = "upward" -> sorted_notes
         [] roll_pattern = "downward" -> Reverse(sorted_notes)
         [] roll_pattern = "inside_out" -> InsideOut(sorted_notes, 0, <<>>)
         [] roll_pattern = "outside_in" ->
                OutsideIn(sorted_notes, 0, Len(sorted_notes) - 1, TRUE, <<>>)
         [] OTHER -> sorted_notes

\* variant taking the onset of the first chord member as the base
MinStart_First(notes, chord) == notes[chord[1]].start

\* min(note.start for note in chord_notes)
RECURSIVE MinStart(_, _)
MinStart(notes, chord) ==
    IF Len(chord) = 1 THEN notes[chord[1]].start
    ELSE Min(notes[chord[1]].start, MinStart(notes, Tail(chord)))

\* the loop `for i, note in enumerate(note_order)`: the note at position k
\* (1-based) gets the onset onsets[k]
RECURSIVE ApplyOrder(_, _, _, _)
ApplyOrder(notes, order, k, onsets) ==
    IF k > Len(order) THEN notes
    ELSE ApplyOrder([notes EXCEPT ![order[k]].start = onsets[k]],
                    order, k + 1, onsets)

\* core.apply_chord_rolling(chord_notes, roll_timing_ticks, roll_pattern)
apply_chord_rolling(notes, chord, roll_timing_ticks, roll_pattern) ==
    IF Len(chord) < 3 THEN notes
    ELSE LET note_order == NoteOrder(notes, chord, roll_pattern)
             base_time == MinStart(notes, chord)
         IN ApplyOrder(notes, note_order, 1,
                       [k \in DOMAIN note_order |->
                            base_time + (k - 1) * roll_timing_ticks])

\* variant that applies the floor first and the ceiling last
ClampRollTiming_CeilingLast(sample, mean_timing_ticks) ==
    Min(Max(2 * (BeatScale \div 10), sample), mean_timing_ticks * 6)

\* the clamp of line 39; timings in 1/BeatScale tick
ClampRollTiming(sample, mean_timing_ticks) ==
    Max(2 * (BeatScale \div 10), Min(sample, mean_timing_ticks * 6))

\* piano_performance.apply_chord_rolling_normal_dist, `sample` the value
\* random.gauss returned
apply_chord_rolling_normal_dist(notes, chord, mean_timing_ticks, sample, roll_pattern) ==
    IF Len(chord) < 3 THEN notes
    ELSE LET actual_roll_timing == ClampRollTiming(sample, mean_timing_ticks)
             note_order == NoteOrder(notes, chord, roll_pattern)
             base_time == MinStart(notes, chord)
         IN ApplyOrder(notes, note_order, 1,
                       [k \in DOMAIN note_order |->
                            base_time + Trunc((k - 1) * actual_roll_timing, BeatScale)])

\* max pitch - min pitch of the chord
ChordSpan(notes, chord) ==
    LET ps == {notes[chord[i]].pitch : i \in DOMAIN chord}
    IN (CHOOSE hi \in ps : \A q \in ps : q <= hi)
       - (CHOOSE lo \in ps : \A q \in ps : lo <= q)

\* variant without the branch for wide chords
choose_roll_pattern_AnySpan(notes, chord, settings) ==
    IF Get(settings, "jazz_chord_emphasis", FALSE)
    THEN {"upward", "downward", "inside_out"}
    ELSE {"upward", "downward", "inside_out", "outside_in"}

\* choose_roll_pattern: the patterns the random choice can return
choose_roll_pattern(notes, chord, settings) ==
    IF Get(settings, "jazz_chord_emphasis", FALSE)
    THEN {"upward", "downward", "inside_out"}
    ELSE IF ChordSpan(notes, chord) > 24
    THEN {"upward", "downward"}
    ELSE {"upward", "downward", "inside_out", "outside_in"}

\* variant without the upper clamp at 3 x base
calculate_dynamic_roll_probability_NoCap(base_probability, sample) ==
    Max(0, sample)

\* calculate_dynamic_roll_probability, `sample` the value random.gauss returned
calculate_dynamic_roll_probability(base_probability, sample) ==
    Max(0, Min(sample, base_probability * 3))

----------------------------------------------------------------------------
(* core.py / piano_performance.py: velocities *)

\* detect_beat_strength: the multiplier, in 1/WeightScale
detect_beat_strength(start, resolution) ==
    LET beat_number == (start \div resolution) % 4
    IN IF 10 * (start % resolution) < resolution
       THEN IF beat_number = 0 THEN 115
            ELSE IF beat_number = 2 THEN 108
            ELSE 95
       ELSE 88

\* variant without the ceiling
Clamp127_NoCeiling(v) == Max(1, v)

\* max(1, min(127, v))
Clamp127(v) == Max(1, Min(127, v))

\* variant that never takes the correlated branch: every note of a group
\* draws its own offset
GroupVelocities_Uncorrelated(notes, group, settings, base_sel, note_sel) ==
    LET velocity_range == settings.velocity_range
        resolution == settings.resolution
        accent == Get(settings, "beat_accenting", FALSE)
        Offset(n) ==
            LET individual == RandIntAt(-velocity_range, velocity_range,
                                        note_sel[n])
            IN IF accent
               THEN Trunc(individual
                            * detect_beat_strength(notes[n].start, resolution),
                          WeightScale)
               ELSE individual
    IN [n \in DOMAIN notes |->
          IF n \in Range(group)
          THEN [notes[n] EXCEPT !.velocity = Clamp127(notes[n].velocity + Offset(n))]
          ELSE notes[n]]

\* the body of the loop over the timing groups for group g: `base_sel`
\* selects the draw of base_offset, note_sel[n] the draw made for note n
GroupVelocities(notes, group, settings, base_sel, note_sel) ==
    LET velocity_range == settings.velocity_range
        resolution == settings.resolution
        accent == Get(settings, "beat_accenting", FALSE)
        drawn == RandIntAt(-velocity_range, velocity_range, base_sel)
        base_offset ==
            IF accent
            THEN Trunc(drawn * detect_beat_strength(notes[group[1]].start, resolution),
                       WeightScale)
            ELSE drawn
        correlated == Get(settings, "chord_velocity_correlation", FALSE)
                      /\ Len(group) > 1
        Offset(n) ==
            IF correlated
            THEN base_offset + RandIntAt(-4, 4, note_sel[n])
            ELSE LET individual == RandIntAt(-velocity_range, velocity_range,
                                             note_sel[n])
                 IN IF accent
                    THEN Trunc(individual
                                 * detect_beat_strength(notes[n].start, resolution),
                               WeightScale)
                    ELSE individual
    IN [n \in DOMAIN notes |->
          IF n \in Range(group)
          THEN [notes[n] EXCEPT !.velocity = Clamp127(notes[n].velocity + Offset(n))]
          ELSE notes[n]]

RECURSIVE VelocityLoop(_, _, _, _, _, _)
VelocityLoop(notes, groups, g, settings, base_sel, note_sel) ==
    IF g > Len(groups) THEN notes
    ELSE VelocityLoop(
            GroupVelocities(notes, groups[g].members, settings, base_sel[g], note_sel),
            groups, g + 1, settings, base_sel, note_sel)

\* apply_beat_accenting_and_correlation on the notes `idxs` of the track
apply_beat_accenting_and_correlation(notes, idxs, settings, base_sel, note_sel) ==
    VelocityLoop(notes, group_notes_by_timing(notes, idxs, 10), 1, settings,
                 base_sel, note_sel)

----------------------------------------------------------------------------
(* core.py: hands and phrase endings *)

IndexSeq(notes) == [i \in 1..Len(notes) |-> i]

\* separate_hands_by_pitch: the indices of each hand, in track order
LeftHand(notes) ==
    LET IsLeft(i) == notes[i].pitch < 60 IN SelectSeq(IndexSeq(notes), IsLeft)

RightHand(notes) ==
    LET IsRight(i) == ~(notes[i].pitch < 60) IN SelectSeq(IndexSeq(notes), IsRight)

\* detect_phrase_endings: indices of the notes lasting min_duration_ticks or more
detect_phrase_endings(notes) ==
    LET IsLong(i) == notes[i].end - notes[i].start >= 480
    IN SelectSeq(IndexSeq(notes), IsLong)

\* the inner loop of apply_phrase_end_ritardando for phrase note p, from
\* note n on; sel[<<p, n>>] selects the delay drawn for that pair
RECURSIVE RitardandoInner(_, _, _, _, _)
RitardandoInner(notes, p, n, resolution, sel) ==
    IF n > Len(notes) THEN notes
    ELSE IF Abs(notes[n].start - notes[p].start) < resolution * 2
         THEN RitardandoInner(
                [notes EXCEPT ![n].start = @ + RandIntAt(5, 25, sel[<<p, n>>])],
                p, n + 1, resolution, sel)
         ELSE RitardandoInner(notes, p, n + 1, resolution, sel)

\* apply_phrase_end_ritardando(notes, phrase_endings, settings)
RECURSIVE apply_phrase_end_ritardando(_, _, _, _, _)
apply_phrase_end_ritardando(notes, phrase_endings, k, resolution, sel) ==
    IF k > Len(phrase_endings) THEN notes
    ELSE apply_phrase_end_ritardando(
            RitardandoInner(notes, phrase_endings[k], 1, resolution, sel),
            phrase_endings, k + 1, resolution, sel)

----------------------------------------------------------------------------
(* Inputs of a run *)

MaxNotes == 3

Note(start, end, pitch, velocity) ==
    [start |-> start, end |-> end, pitch |-> pitch, velocity |-> velocity]

\* Representative tracks.  TrackA: a long note (a phrase ending) overlapped
\* by a short note of the same pitch, notes on both sides of the hand
\* split, onsets within the chord tolerance, the velocity extremes.
\* TrackB: a chord spanning more than two octaves, a phrase ending in the
\* left hand, and the pitch 60 that TrackA also uses.  TrackC: one note
\* shorter than the minimum duration at resolution 480.
TrackA ==
    << Note(0, 600, 60, 127), Note(2, 10, 60, 1), Note(5, 100, 48, 120),
       Note(4, 40, 48, 100), Note(3, 8, 67, 30) >>

TrackB ==
    << Note(100, 130, 60, 64), Note(100, 700, 35, 1), Note(103, 110, 60, 127) >>

TrackC ==
    << Note(50, 58, 64, 64) >>

Prefixes(t, lo, hi) == { SubSeq(t, 1, n) : n \in lo..Min(hi, Len(t)) }

\* a score has one track, or two tracks, and MaxNotes notes at most
ScoreTracks ==
    { <<t>> : t \in Prefixes(TrackA, 0, MaxNotes) \cup Prefixes(TrackB, 0, MaxNotes)
                    \cup Prefixes(TrackC, 0, MaxNotes) }
    \cup { <<a, b>> : a \in Prefixes(TrackA, 1, MaxNotes - 1),
                      b \in Prefixes(TrackB, 1, MaxNotes - 1) }

NoteCount(tracks) ==
    LET RECURSIVE Sum(_)
        Sum(k) == IF k = 0 THEN 0 ELSE Len(tracks[k]) + Sum(k - 1)
    IN Sum(Len(tracks))

Resolutions == {480}

Scores ==
    { [resolution |-> r, tracks |-> ts] :
        r \in Resolutions,
        ts \in { x \in ScoreTracks : NoteCount(x) <= MaxNotes } }

Functions == {"humanize_midi_basic", "humanize_midi_advanced"}
MethodArgs == {"basic", "piano_performance", "unknown"}
PresetArgs == {"minimal", "medium", "aggressive", "classical", "romantic",
               "jazz", "ultra"}

Calls ==
    [fn : Functions, method : MethodArgs, preset_name : PresetArgs]

NoRoll == [dynamic_probability |-> 0, rolled |-> FALSE, roll_pattern |-> "",
           actual_roll_timing |-> 0]

----------------------------------------------------------------------------
(* basic.py: humanize_midi_basic *)

\* the body of the per-note loop with its three draws
BasicNote(n, velocity_offset, start_offset, end_offset, minTicks) ==
    LET velocity == Max(1, Min(127, n.velocity + velocity_offset))
        start == Max(0, n.start + start_offset)
        end == n.end + end_offset
    IN [n EXCEPT !.velocity = velocity,
                 !.start = start,
                 !.end = IF end - start < minTicks THEN start + minTicks ELSE end]

\* variant that runs the overlap pass before it looks the preset up
BasicEnter_ResolveFirst ==
    /\ pc = "call"
    /\ call.fn = "humanize_midi_basic"
    /\ music' = resolve_overlapping_notes(music, 0)
    /\ LET e == PresetError(HUMANIZATION_METHODS, call.method, call.preset_name)
       IN IF e # NoError
          THEN /\ err' = e
               /\ pc' = "raised"
               /\ UNCHANGED <<min_duration_ticks, track_idx>>
          ELSE /\ min_duration_ticks' =
                        Ticks(Settings.min_duration_beats, music.resolution)
               /\ track_idx' = 1
               /\ pc' = "basic_tracks"
               /\ err' = err
    /\ UNCHANGED <<result, HUMANIZATION_METHODS, input, call, chords, chord_idx, roll>>

\* line 25 and the conversions to ticks: raise, or enter the track loop
BasicEnter ==
    /\ pc = "call"
    /\ call.fn = "humanize_midi_basic"
    /\ LET e == PresetError(HUMANIZATION_METHODS, call.method, call.preset_name)
       IN IF e # NoError
          THEN /\ err' = e
               /\ pc' = "raised"
               /\ UNCHANGED <<min_duration_ticks, track_idx>>
          ELSE /\ min_duration_ticks' =
                        Ticks(Settings.min_duration_beats, music.resolution)
               /\ track_idx' = 1
               /\ pc' = "basic_tracks"
               /\ err' = err
    /\ UNCHANGED <<result, HUMANIZATION_METHODS, music, input, call, chords, chord_idx, roll>>

\* one iteration of `for track in music.tracks`
BasicTrack ==
    /\ pc = "basic_tracks"
    /\ track_idx <= Len(music.tracks)
    /\ LET notes == music.tracks[track_idx]
           s == Settings
           vr == s.velocity_range
           onT == Ticks(s.noteon_timing_range, music.resolution)
           offT == Ticks(s.noteoff_timing_range, music.resolution)
       IN \E vo \in [DOMAIN notes -> RandInt(-vr, vr)],
             so \in [DOMAIN notes -> RandInt(-onT, onT)],
             eo \in [DOMAIN notes -> RandInt(-offT, offT)] :
            music' = [music EXCEPT !.tracks[track_idx] =
                        [i \in DOMAIN notes |->
                            BasicNote(notes[i], vo[i], so[i], eo[i],
                                      min_duration_ticks)]]
    /\ track_idx' = track_idx + 1
    /\ UNCHANGED <<result, HUMANIZATION_METHODS, input, call, pc, err,
                   min_duration_ticks, chords, chord_idx, roll>>

\* line 88: resolve_overlapping_notes(music, min_duration_ticks); return
BasicResolve ==
    /\ pc = "basic_tracks"
    /\ track_idx > Len(music.tracks)
    /\ music' = resolve_overlapping_notes(music, min_duration_ticks)
    /\ pc' = "done"
    /\ UNCHANGED <<result, HUMANIZATION_METHODS, input, call, err,
                   min_duration_ticks, track_idx, chords, chord_idx, roll>>

----------------------------------------------------------------------------
(* piano_performance.py: humanize_midi_advanced *)

KeyError == [exc |-> "KeyError", text |-> "chord_roll_mean_timing", available |-> <<>>]

\* random.gauss(mu, sigma) may return any real; the model draws mu and
\* points below and above it, far enough to reach both clamps
GaussSigmas == {-12, 0, 3, 12}

Gauss(mu, sigma) == {mu + k * sigma : k \in GaussSigmas}

\* random.random(), in 1/ProbScale
Uniform == {0, ProbScale \div 10, ProbScale - 1}

\* variant without the floor at 0
HandTiming_NoFloor(notes, hand, hand_type, settings, timing_sel) ==
    LET timing_factor ==
            IF hand_type = "left"
            THEN Get(settings, "left_hand_timing_factor", 8)
            ELSE 10
        timing_range ==
            Trunc(settings.noteon_timing_range * settings.resolution * timing_factor,
                  BeatScale * FactorScale)
    IN [n \in DOMAIN notes |->
          IF n \in Range(hand)
          THEN [notes[n] EXCEPT !.start =
                  @ + RandIntAt(-timing_range, timing_range, timing_sel[n])]
          ELSE notes[n]]

\* humanize_hand, lines 199-214: the timing loop over the notes `hand`
HandTiming(notes, hand, hand_type, settings, timing_sel) ==
    LET timing_factor ==
            IF hand_type = "left"
            THEN Get(settings, "left_hand_timing_factor", 8)
            ELSE 10
        timing_range ==
            Trunc(settings.noteon_timing_range * settings.resolution * timing_factor,
                  BeatScale * FactorScale)
    IN [n \in DOMAIN notes |->
          IF n \in Range(hand)
          THEN [notes[n] EXCEPT !.start =
                  Max(0, @ + RandIntAt(-timing_range, timing_range, timing_sel[n]))]
          ELSE notes[n]]

\* humanize_hand, lines 217-218: hand_settings
HandSettings(hand_type, settings) ==
    LET velocity_factor ==
            IF hand_type = "left"
            THEN 9
            ELSE Get(settings, "right_hand_velocity_factor", 11)
    IN Put(settings, "velocity_range",
           Trunc(settings.velocity_range * velocity_factor, FactorScale))

\* humanize_hand(notes, hand_type, settings) on the notes `hand` of the track
humanize_hand(notes, hand, hand_type, settings, timing_sel, base_sel, note_sel) ==
    apply_beat_accenting_and_correlation(
        HandTiming(notes, hand, hand_type, settings, timing_sel),
        hand, HandSettings(hand_type, settings), base_sel, note_sel)

\* the draws one call of humanize_hand makes: one per note for the onset,
\* one per timing group for base_offset, one per note for its velocity
HandCall(notes, hand, hand_type, settings) ==
    \E timing_sel \in [Range(hand) -> DrawSel] :
      LET groups == group_notes_by_timing(
                        HandTiming(notes, hand, hand_type, settings, timing_sel),
                        hand, 10)
      IN \E base_sel \in [DOMAIN groups -> DrawSel],
            note_sel \in [Range(hand) -> DrawSel] :
           music' = [music EXCEPT !.tracks[track_idx] =
                        humanize_hand(notes, hand, hand_type, settings,
                                      timing_sel, base_sel, note_sel)]

\* lines 332-341: the timing loop of the branch without hand separation
WholeTrackTiming(notes, onT, offT, minTicks, start_sel, end_sel) ==
    [n \in DOMAIN notes |->
        LET start == Max(0, notes[n].start + RandIntAt(-onT, onT, start_sel[n]))
            end == notes[n].end + RandIntAt(-offT, offT, end_sel[n])
        IN [notes[n] EXCEPT
              !.start = start,
              !.end = IF end - start < minTicks THEN start + minTicks ELSE end]]

\* lines 250-272: resolve the settings, store the resolution in them, read
\* the fields the function indexes
AdvancedEnter ==
    /\ pc = "call"
    /\ call.fn = "humanize_midi_advanced"
    /\ LET e == PresetError(HUMANIZATION_METHODS, call.method, call.preset_name)
       IN IF e # NoError
          THEN /\ err' = e
               /\ pc' = "raised"
               /\ UNCHANGED <<HUMANIZATION_METHODS, min_duration_ticks, track_idx>>
          ELSE LET table ==
                     [HUMANIZATION_METHODS EXCEPT
                        ![call.method].presets[call.preset_name] =
                            Put(@, "resolution", music.resolution)]
                   s == get_preset_settings(table, call.method, call.preset_name)
               IN /\ HUMANIZATION_METHODS' = table
                  /\ IF "chord_roll_mean_timing" \notin DOMAIN s
                     THEN /\ err' = KeyError
                          /\ pc' = "raised"
                          /\ UNCHANGED <<min_duration_ticks, track_idx>>
                     ELSE /\ min_duration_ticks' =
                                Ticks(s.min_duration_beats, music.resolution)
                          /\ track_idx' = 1
                          /\ pc' = "adv_track"
                          /\ err' = err
    /\ UNCHANGED <<result, music, input, call, chords, chord_idx, roll>>

\* lines 274-283: next track; an empty track is skipped
AdvDetect ==
    /\ pc = "adv_track"
    /\ track_idx <= Len(music.tracks)
    /\ IF Len(music.tracks[track_idx]) = 0
       THEN /\ track_idx' = track_idx + 1
            /\ UNCHANGED <<pc, chords, chord_idx>>
       ELSE /\ chords' = detect_chords(music.tracks[track_idx], 5)
            /\ chord_idx' = 1
            /\ pc' = "adv_roll"
            /\ track_idx' = track_idx
    /\ UNCHANGED <<result, HUMANIZATION_METHODS, music, input, call, err,
                   min_duration_ticks, roll>>

\* variant that selects the pattern before it takes the roll decision
AdvRollChord_SelectFirst ==
    /\ pc = "adv_roll"
    /\ chord_idx <= Len(chords)
    /\ LET s == Settings
           notes == music.tracks[track_idx]
           chord == chords[chord_idx]
           mean_roll_ticks == s.chord_roll_mean_timing * music.resolution
           std_roll_ticks == s.chord_roll_std_timing * music.resolution
       IN \E roll_pattern \in choose_roll_pattern(notes, chord, s),
             psample \in Gauss(s.chord_roll_probability,
                               Get(s, "chord_roll_probability_std", 20)),
             u \in Uniform :
            LET dynamic_probability ==
                    calculate_dynamic_roll_probability(s.chord_roll_probability,
                                                       psample)
            IN IF u < dynamic_probability
               THEN \E tsample \in Gauss(mean_roll_ticks, std_roll_ticks) :
                      /\ music' = [music EXCEPT !.tracks[track_idx] =
                            apply_chord_rolling_normal_dist(
                                notes, chord, mean_roll_ticks, tsample, roll_pattern)]
                      /\ roll' = [dynamic_probability |-> dynamic_probability,
                                  rolled |-> TRUE,
                                  roll_pattern |-> roll_pattern,
                                  actual_roll_timing |->
                                      ClampRollTiming(tsample, mean_roll_ticks)]
               ELSE /\ music' = music
                    /\ roll' = [dynamic_probability |-> dynamic_probability,
                                rolled |-> FALSE,
                                roll_pattern |-> roll_pattern,
                                actual_roll_timing |-> 0]
    /\ chord_idx' = chord_idx + 1
    /\ UNCHANGED <<result, HUMANIZATION_METHODS, input, call, pc, err,
                   min_duration_ticks, track_idx, chords>>

\* lines 285-297: one iteration of `for chord in chords`
AdvRollChord ==
    /\ pc = "adv_roll"
    /\ chord_idx <= Len(chords)
    /\ LET s == Settings
           notes == music.tracks[track_idx]
           chord == chords[chord_idx]
           mean_roll_ticks == s.chord_roll_mean_timing * music.resolution
           std_roll_ticks == s.chord_roll_std_timing * music.resolution
       IN \E psample \in Gauss(s.chord_roll_probability,
                               Get(s, "chord_roll_probability_std", 20)),
             u \in Uniform :
            LET dynamic_probability ==
                    calculate_dynamic_roll_probability(s.chord_roll_probability,
                                                       psample)
            IN IF u < dynamic_probability
               THEN \E roll_pattern \in choose_roll_pattern(notes, chord, s),
                       tsample \in Gauss(mean_roll_ticks, std_roll_ticks) :
                      /\ music' = [music EXCEPT !.tracks[track_idx] =
                            apply_chord_rolling_normal_dist(
                                notes, chord, mean_roll_ticks, tsample, roll_pattern)]
                      /\ roll' = [dynamic_probability |-> dynamic_probability,
                                  rolled |-> TRUE,
                                  roll_pattern |-> roll_pattern,
                                  actual_roll_timing |->
                                      ClampRollTiming(tsample, mean_roll_ticks)]
               ELSE /\ music' = music
                    /\ roll' = [dynamic_probability |-> dynamic_probability,
                                rolled |-> FALSE,
                                roll_pattern |-> "",
                                actual_roll_timing |-> 0]
    /\ chord_idx' = chord_idx + 1
    /\ UNCHANGED <<result, HUMANIZATION_METHODS, input, call, pc, err,
                   min_duration_ticks, track_idx, chords>>

ChordsDone == pc = "adv_roll" /\ chord_idx > Len(chords)

\* lines 306-312: humanize_hand(left_hand, "left", settings)
AdvLeftHand ==
    /\ ChordsDone
    /\ Get(Settings, "hand_separation_enabled", FALSE)
    /\ HandCall(music.tracks[track_idx], LeftHand(music.tracks[track_idx]),
                "left", Settings)
    /\ pc' = "adv_right"
    /\ roll' = NoRoll
    /\ UNCHANGED <<result, HUMANIZATION_METHODS, input, call, err,
                   min_duration_ticks, track_idx, chords, chord_idx>>

\* line 313: humanize_hand(right_hand, "right", settings); the hands were
\* separated at line 307, before the left hand was humanized, and pitches
\* never change
AdvRightHand ==
    /\ pc = "adv_right"
    /\ HandCall(music.tracks[track_idx], RightHand(music.tracks[track_idx]),
                "right", Settings)
    /\ pc' = "adv_phrase"
    /\ UNCHANGED <<result, HUMANIZATION_METHODS, input, call, err,
                   min_duration_ticks, track_idx, chords, chord_idx, roll>>

\* lines 330-344: the branch without hand separation
AdvWholeTrack ==
    /\ ChordsDone
    /\ ~Get(Settings, "hand_separation_enabled", FALSE)
    /\ LET notes == music.tracks[track_idx]
           s == Settings
           onT == Ticks(s.noteon_timing_range, music.resolution)
           offT == Ticks(s.noteoff_timing_range, music.resolution)
       IN \E start_sel \in [DOMAIN notes -> DrawSel],
             end_sel \in [DOMAIN notes -> DrawSel] :
            LET timed == WholeTrackTiming(notes, onT, offT, min_duration_ticks,
                                          start_sel, end_sel)
                groups == group_notes_by_timing(timed, IndexSeq(notes), 10)
            IN \E base_sel \in [DOMAIN groups -> DrawSel],
                  note_sel \in [DOMAIN notes -> DrawSel] :
                 music' = [music EXCEPT !.tracks[track_idx] =
                             apply_beat_accenting_and_correlation(
                                 timed, IndexSeq(notes), s, base_sel, note_sel)]
    /\ pc' = "adv_phrase"
    /\ roll' = NoRoll
    /\ UNCHANGED <<result, HUMANIZATION_METHODS, input, call, err,
                   min_duration_ticks, track_idx, chords, chord_idx>>

\* lines 352-355: phrase-end ritardando
AdvPhrase ==
    /\ pc = "adv_phrase"
    /\ LET notes == music.tracks[track_idx]
           phrase_endings == detect_phrase_endings(notes)
       IN \E sel \in [Range(phrase_endings) \X DOMAIN notes -> DrawSel] :
            music' = [music EXCEPT !.tracks[track_idx] =
                        apply_phrase_end_ritardando(notes, phrase_endings, 1,
                                                    Settings.resolution, sel)]
    /\ pc' = "adv_overlap"
    /\ UNCHANGED <<result, HUMANIZATION_METHODS, input, call, err,
                   min_duration_ticks, track_idx, chords, chord_idx, roll>>

\* lines 358-372: the overlap pass of the track, then the next track
AdvOverlap ==
    /\ pc = "adv_overlap"
    /\ music' = [music EXCEPT !.tracks[track_idx] =
                    ResolveTrack(music.tracks[track_idx], min_duration_ticks)]
    /\ track_idx' = track_idx + 1
    /\ pc' = "adv_track"
    /\ UNCHANGED <<result, HUMANIZATION_METHODS, input, call, err,
                   min_duration_ticks, chords, chord_idx, roll>>

\* line 379: return music
AdvReturn ==
    /\ pc = "adv_track"
    /\ track_idx > Len(music.tracks)
    /\ pc' = "done"
    /\ UNCHANGED <<result, HUMANIZATION_METHODS, music, input, call, err,
                   min_duration_ticks, track_idx, chords, chord_idx, roll>>

----------------------------------------------------------------------------
(* Direct calls of the core functions *)

\* resolve_overlapping_notes(music, min_duration_ticks)
ResolveCall ==
    /\ pc = "resolve_call"
    /\ music' = resolve_overlapping_notes(music, min_duration_ticks)
    /\ pc' = "resolve_done"
    /\ UNCHANGED <<result, HUMANIZATION_METHODS, input, call, err,
                   min_duration_ticks, track_idx, chords, chord_idx, roll>>

\* a second resolve_overlapping_notes(music, min_duration_ticks) on the
\* score the first call left
ResolveAgain ==
    /\ pc = "resolve_done"
    /\ music' = resolve_overlapping_notes(music, min_duration_ticks)
    /\ pc' = "resolve_twice"
    /\ UNCHANGED <<result, HUMANIZATION_METHODS, input, call, err,
                   min_duration_ticks, track_idx, chords, chord_idx, roll>>

\* variant that moves every note onto the key of its group
DetectCall_Snap ==
    /\ pc = "detect_call"
    /\ chords' = detect_chords(music.tracks[1], call.tolerance_ticks)
    /\ LET notes == music.tracks[1]
           groups == group_notes_by_timing(notes, IndexSeq(notes),
                                           call.tolerance_ticks)
           KeyOf(n) ==
              groups[CHOOSE g \in DOMAIN groups : n \in Range(groups[g].members)].key
       IN music' = [music EXCEPT !.tracks[1] =
                      [n \in DOMAIN notes |-> [notes[n] EXCEPT !.start = KeyOf(n)]]]
    /\ pc' = "detect_done"
    /\ UNCHANGED <<result, HUMANIZATION_METHODS, input, call, err,
                   min_duration_ticks, track_idx, chord_idx, roll>>

\* detect_chords(notes, tolerance_ticks) on the notes of track 1
DetectCall ==
    /\ pc = "detect_call"
    /\ chords' = detect_chords(music.tracks[1], call.tolerance_ticks)
    /\ pc' = "detect_done"
    /\ UNCHANGED <<result, HUMANIZATION_METHODS, music, input, call, err,
                   min_duration_ticks, track_idx, chord_idx, roll>>

\* a second detect_chords(notes, tolerance_ticks) on the same list
DetectAgain ==
    /\ pc = "detect_done"
    /\ chords' = detect_chords(music.tracks[1], call.tolerance_ticks)
    /\ pc' = "detect_twice"
    /\ UNCHANGED <<result, HUMANIZATION_METHODS, music, input, call, err,
                   min_duration_ticks, track_idx, chord_idx, roll>>

\* apply_chord_rolling(chord_notes, roll_timing_ticks, roll_pattern) with
\* all the notes of track 1 as chord_notes
RollCall ==
    /\ pc = "roll_call"
    /\ music' = [music EXCEPT !.tracks[1] =
                    apply_chord_rolling(music.tracks[1], IndexSeq(music.tracks[1]),
                                        call.roll_timing_ticks, call.roll_pattern)]
    /\ pc' = "roll_done"
    /\ UNCHANGED <<result, HUMANIZATION_METHODS, input, call, err,
                   min_duration_ticks, track_idx, chords, chord_idx, roll>>

\* phrase_endings = detect_phrase_endings(notes) followed by
\* apply_phrase_end_ritardando(notes, phrase_endings, settings) on the
\* notes of track 1, as lines 351-353 of piano_performance.py call them
PhraseCall ==
    /\ pc = "phrase_call"
    /\ LET notes == music.tracks[1]
           phrase_endings == detect_phrase_endings(notes)
       IN \E sel \in [Range(phrase_endings) \X DOMAIN notes -> DrawSel] :
            music' = [music EXCEPT !.tracks[1] =
                        apply_phrase_end_ritardando(notes, phrase_endings, 1,
                                                    music.resolution, sel)]
    /\ pc' = "phrase_done"
    /\ UNCHANGED <<result, HUMANIZATION_METHODS, input, call, err,
                   min_duration_ticks, track_idx, chords, chord_idx, roll>>

\* detect_beat_strength(note, resolution) for a note with the given start
BeatCall ==
    /\ pc = "beat_call"
    /\ result' = detect_beat_strength(call.start, call.resolution)
    /\ pc' = "beat_done"
    /\ UNCHANGED <<HUMANIZATION_METHODS, music, input, call, err,
                   min_duration_ticks, track_idx, chords, chord_idx, roll>>

\* lines 270-272 of humanize_midi_advanced followed by lines 36-39 of
\* apply_chord_rolling_normal_dist: the interval a rolled chord is given
RollTimingCall ==
    /\ pc = "timing_call"
    /\ LET s == get_preset_settings(HUMANIZATION_METHODS, call.method,
                                    call.preset_name)
           mean_roll_ticks == s.chord_roll_mean_timing * call.resolution
           std_roll_ticks == s.chord_roll_std_timing * call.resolution
       IN \E tsample \in Gauss(mean_roll_ticks, std_roll_ticks) :
            result' = ClampRollTiming(tsample, mean_roll_ticks)
    /\ pc' = "timing_done"
    /\ UNCHANGED <<HUMANIZATION_METHODS, music, input, call, err,
                   min_duration_ticks, track_idx, chords, chord_idx, roll>>

----------------------------------------------------------------------------
(* Specifications *)

\* locals that a behaviour has not assigned yet
Unassigned ==
    /\ err = NoError
    /\ track_idx = 0
    /\ chords = <<>>
    /\ chord_idx = 0
    /\ roll = NoRoll
    /\ result = 0

\* Spec: one call of a pipeline on the shipped preset table
Init ==
    /\ HUMANIZATION_METHODS = PresetTable
    /\ music \in Scores
    /\ input = music
    /\ call \in Calls
    /\ pc = "call"
    /\ min_duration_ticks = 0
    /\ Unassigned

Next ==
    \/ BasicEnter
    \/ BasicTrack
    \/ BasicResolve
    \/ AdvancedEnter
    \/ AdvDetect
    \/ AdvRollChord
    \/ AdvLeftHand
    \/ AdvRightHand
    \/ AdvPhrase
    \/ AdvOverlap
    \/ AdvReturn

Spec == Init /\ [][Next]_vars

\* SpecCustom: humanize_midi_advanced on a preset the caller has added to
\* the table under piano_performance: rolling switched off, hand
\* separation switched off, only the indexed fields present, wide rolls
Classical == PresetTable.piano_performance.presets.classical

CustomPresets ==
    { [Classical EXCEPT !.chord_roll_probability = 0],
      [Classical EXCEPT !.hand_separation_enabled = FALSE],
      [velocity_range |-> 10, noteon_timing_range |-> 1000,
       noteoff_timing_range |-> 500, min_duration_beats |-> 3125,
       chord_roll_probability |-> 0, chord_roll_mean_timing |-> 20,
       chord_roll_std_timing |-> 10],
      [Classical EXCEPT !.chord_roll_probability = 300,
                        !.chord_roll_mean_timing = 1000,
                        !.chord_roll_std_timing = 500] }

WithCustom(preset) ==
    [PresetTable EXCEPT
        !.piano_performance.keys = Append(@, "custom"),
        !.piano_performance.presets = Put(@, "custom", preset)]

InitCustom ==
    /\ HUMANIZATION_METHODS \in { WithCustom(c) : c \in CustomPresets }
    /\ music \in { m \in Scores : Len(m.tracks) = 1 }
    /\ input = music
    /\ call = [fn |-> "humanize_midi_advanced", method |-> "piano_performance",
               preset_name |-> "custom"]
    /\ pc = "call"
    /\ min_duration_ticks = 0
    /\ Unassigned

NextCustom ==
    \/ AdvancedEnter
    \/ AdvDetect
    \/ AdvRollChord
    \/ AdvLeftHand
    \/ AdvRightHand
    \/ AdvWholeTrack
    \/ AdvPhrase
    \/ AdvOverlap
    \/ AdvReturn

SpecCustom == InitCustom /\ [][NextCustom]_vars

\* SpecOverlap: resolve_overlapping_notes called on any small score
MaxTick == 3
MaxMinDuration == 2

LanePitches == {60, 62}

\* notes of one or two pitches with 0 <= start < end <= MaxTick
OverlapNotes ==
    { n \in [start : 0..(MaxTick - 1), end : 1..MaxTick,
             pitch : LanePitches, velocity : {64}] : n.start < n.end }

SeqsUpTo(S, n) == UNION { [1..k -> S] : k \in 0..n }

InitOverlap ==
    /\ HUMANIZATION_METHODS = PresetTable
    /\ music \in { [resolution |-> 480, tracks |-> <<t>>] :
                     t \in SeqsUpTo(OverlapNotes, MaxNotes) }
    /\ input = music
    /\ call = [fn |-> "resolve_overlapping_notes"]
    /\ pc = "resolve_call"
    /\ min_duration_ticks \in 0..MaxMinDuration
    /\ Unassigned

NextOverlap ==
    \/ ResolveCall
    \/ ResolveAgain

SpecOverlap == InitOverlap /\ [][NextOverlap]_vars

\* SpecChord: detect_chords and apply_chord_rolling called on small note lists
MaxChordNotes == 4
MaxTolerance == 2
MaxInterval == 2

ChordPitches == {60, 64, 67}
ChordStarts == {100, 103}
RollIntervals == (0..MaxInterval) \cup {10}
Patterns == {"upward", "downward", "inside_out", "outside_in", "sideways"}

DetectInputs ==
    SeqsUpTo({ Note(s, s + 1, 60, 64) : s \in 0..MaxTick }, MaxChordNotes)

RollInputs ==
    UNION { [1..k -> { Note(s, s + 50, p, 64) : s \in ChordStarts, p \in ChordPitches }] :
              k \in 3..MaxChordNotes }

InitChord ==
    /\ HUMANIZATION_METHODS = PresetTable
    /\ \/ /\ pc = "detect_call"
          /\ music \in { [resolution |-> 480, tracks |-> <<t>>] : t \in DetectInputs }
          /\ call \in [fn : {"detect_chords"}, tolerance_ticks : 0..MaxTolerance]
       \/ /\ pc = "roll_call"
          /\ music \in { [resolution |-> 480, tracks |-> <<t>>] : t \in RollInputs }
          /\ call \in [fn : {"apply_chord_rolling"},
                       roll_timing_ticks : RollIntervals,
                       roll_pattern : Patterns]
    /\ input = music
    /\ min_duration_ticks = 0
    /\ Unassigned

NextChord ==
    \/ DetectCall
    \/ DetectAgain
    \/ RollCall

SpecChord == InitChord /\ [][NextChord]_vars

\* SpecCore: the remaining functions of the core called on their own
MaxPhraseNotes == 2

\* onsets on both sides of the two-beat window of a phrase ending, at
\* resolution 480; long notes are phrase endings
PhraseStarts == {0, 5, 962}
PhraseDurations == {10, 600}

PhraseInputs ==
    UNION { [1..k -> { Note(s, s + d, 60, 64) : s \in PhraseStarts,
                                                d \in PhraseDurations }] :
              k \in 1..MaxPhraseNotes }

\* onsets of the beats 0..MaxBeat: on the boundary, right after it, at both
\* sides of a tenth of a beat after it, at the half beat, and a tenth of a
\* beat and one tick before the next boundary
MaxBeat == 4

BeatResolutions == {20, 96, 480}

BeatOffsets(r) ==
    {0, 1, (r - 1) \div 10, (r - 1) \div 10 + 1, r \div 2, r - r \div 10, r - 1}

BeatInputs ==
    UNION { { [fn |-> "detect_beat_strength", resolution |-> r, start |-> b * r + o] :
                b \in 0..MaxBeat, o \in BeatOffsets(r) } : r \in BeatResolutions }

EmptyScore == [resolution |-> 480, tracks |-> << <<>> >>]

\* ticks per beat found in MIDI files
TimingResolutions == {24, 48, 96, 120, 192, 240, 384, 480, 960}

InitCore ==
    /\ HUMANIZATION_METHODS = PresetTable
    /\ \/ /\ pc = "phrase_call"
          /\ music \in { [resolution |-> 480, tracks |-> <<t>>] : t \in PhraseInputs }
          /\ call = [fn |-> "apply_phrase_end_ritardando"]
       \/ /\ pc = "beat_call"
          /\ music = EmptyScore
          /\ call \in BeatInputs
       \/ /\ pc = "timing_call"
          /\ music = EmptyScore
          /\ call \in [fn : {"apply_chord_rolling_normal_dist"},
                       method : {"piano_performance"},
                       preset_name : {"classical", "romantic", "jazz"},
                       resolution : TimingResolutions]
    /\ input = music
    /\ min_duration_ticks = 0
    /\ Unassigned

NextCore ==
    \/ PhraseCall
    \/ BeatCall
    \/ RollTimingCall

SpecCore == InitCore /\ [][NextCore]_vars

----------------------------------------------------------------------------
(* Properties *)

Returned == pc = "done"

\* the positions <<track, index>> of the notes of a score
Positions(m) ==
    UNION { { <<t, i>> : i \in DOMAIN m.tracks[t] } : t \in DOMAIN m.tracks }

NoteAt(m, pos) == m.tracks[pos[1]][pos[2]]

\* C1: after humanize_midi_basic or humanize_midi_advanced has returned,
\* every note lasts at least min_duration_ticks =
\* int(min_duration_beats * resolution).
C1_DurationBound ==
    Returned =>
        \A pos \in Positions(music) :
            NoteAt(music, pos).end - NoteAt(music, pos).start >= min_duration_ticks

\* same-pitch notes a, b of one track, a right before b in the lane sorted
\* by onset (equal onsets keep their track order, as list.sort does)
Before(notes, a, b) ==
    \/ notes[a].start < notes[b].start
    \/ (notes[a].start = notes[b].start /\ a < b)

AdjacentInLane(notes, a, b) ==
    /\ a # b
    /\ notes[a].pitch = notes[b].pitch
    /\ Before(notes, a, b)
    /\ ~\E c \in DOMAIN notes :
          /\ c # a /\ c # b
          /\ notes[c].pitch = notes[a].pitch
          /\ Before(notes, a, c) /\ Before(notes, c, b)

Resolved == pc = "resolve_done"

C3_VelocityBound ==
    Returned =>
        \A pos \in Positions(music) :
            /\ 1 <= NoteAt(music, pos).velocity
            /\ NoteAt(music, pos).velocity <= 127

\* the advanced pipeline returned with a note at each end of the range,
\* one of them moved there from inside it
C3_Witness ==
    /\ Returned
    /\ call.fn = "humanize_midi_advanced"
    /\ \E p, q \in Positions(music) :
          /\ NoteAt(music, p).velocity = 127
          /\ NoteAt(input, p).velocity < 127
          /\ NoteAt(music, q).velocity = 1

\* C4: at every position of a call, and so after it has returned, every
\* note has start >= 0.
C4_OnsetNonNegative ==
    \A pos \in Positions(music) : NoteAt(music, pos).start >= 0

\* a pipeline returned with a note whose positive onset was brought to 0
C4_Witness ==
    /\ Returned
    /\ \E pos \in Positions(music) :
          /\ NoteAt(input, pos).start > 0
          /\ NoteAt(music, pos).start = 0

KnownPresets(method) ==
    IF method = "basic" THEN <<"minimal", "medium", "aggressive">>
    ELSE IF method = "piano_performance" THEN <<"classical", "romantic", "jazz">>
    ELSE <<>>

UnknownKey ==
    call.preset_name \notin Range(KnownPresets(call.method))

\* C5: a call with an unknown method or preset name ends with the
\* configuration error and every note as it was passed in.
C5_ErrorBeforeMutation ==
    (UnknownKey /\ pc # "call") =>
        /\ pc = "raised"
        /\ err.exc = "ValueError"
        /\ music = input

\* humanize_midi_advanced raised on a score that has notes
C5_Witness ==
    /\ pc = "raised"
    /\ call.fn = "humanize_midi_advanced"
    /\ UnknownKey
    /\ err.exc = "ValueError"
    /\ Len(music.tracks[1]) >= 2

\* C6: a run leaves the preset table as it was: no field of a preset is
\* added or modified, and a later get_preset_settings returns what it
\* returned before the run.
C6_TableUnchanged ==
    HUMANIZATION_METHODS = PresetTable

\* C7: for a known method and a preset name it does not define, the call
\* raises an error listing exactly the preset names of that method, and
\* gets no settings.
C7_ErrorListsPresets ==
    ( /\ call.method \in {"basic", "piano_performance"}
      /\ UnknownKey
      /\ pc # "call" ) =>
        /\ pc = "raised"
        /\ err.text = "Unknown preset"
        /\ err.available = KnownPresets(call.method)
        /\ track_idx = 0

\* Scenario D, and the same for the other method
C7_Witness ==
    /\ pc = "raised"
    /\ call.preset_name = "ultra"
    /\ \/ call.method = "basic" /\ err.available = <<"minimal", "medium", "aggressive">>
       \/ call.method = "piano_performance"
            /\ err.available = <<"classical", "romantic", "jazz">>

\* C8: with chord_roll_probability 0, for every Normal sample and every
\* uniform draw the sampled probability is 0, the roll test fails and the
\* rolling stage rewrites no onset.
C8_NoRollAtZero ==
    (pc = "adv_roll" /\ Settings.chord_roll_probability = 0) =>
        /\ roll.dynamic_probability = 0
        /\ ~roll.rolled
        /\ music.tracks[track_idx] = input.tracks[track_idx]

\* the loop body has run for a chord under a preset with probability 0
C8_Witness ==
    /\ pc = "adv_roll"
    /\ Settings.chord_roll_probability = 0
    /\ Len(chords) >= 1
    /\ chord_idx > Len(chords)
    /\ ~roll.rolled

\* C9: the reference clustering.  A note opens a group when no group
\* opened before it has its key within tolerance.
RECURSIVE IsOpener(_, _, _)
IsOpener(notes, tolerance, n) ==
    \A o \in 1..(n - 1) :
        IsOpener(notes, tolerance, o) =>
            Abs(notes[n].start - notes[o].start) > tolerance

\* the opener of the group a note joins: the earliest opener within tolerance
Owner(notes, tolerance, n) ==
    CHOOSE o \in 1..n :
        /\ IsOpener(notes, tolerance, o)
        /\ Abs(notes[n].start - notes[o].start) <= tolerance
        /\ \A q \in 1..(o - 1) :
              IsOpener(notes, tolerance, q) =>
                  Abs(notes[n].start - notes[q].start) > tolerance

Detected == pc = "detect_done"

\* C9: detect_chords is first-match clustering in input order: every
\* returned group has 3 or more notes, in input order, no note is in two
\* groups, the groups are exactly the sets of notes that share the
\* earliest-opened key within tolerance, and 3 or more notes all within
\* tolerance of the first note form one group of all of them.
C9_FirstMatchClustering ==
    Detected =>
        LET notes == music.tracks[1]
            tol == call.tolerance_ticks
        IN /\ \A g \in DOMAIN chords : Len(chords[g]) >= 3
           /\ \A g \in DOMAIN chords :
                 \A i, j \in DOMAIN chords[g] : i < j => chords[g][i] < chords[g][j]
           /\ \A g, h \in DOMAIN chords :
                 g # h => Range(chords[g]) \cap Range(chords[h]) = {}
           /\ \A g \in DOMAIN chords :
                 Range(chords[g]) =
                    { n \in DOMAIN notes :
                        Owner(notes, tol, n) = Owner(notes, tol, chords[g][1]) }
           /\ \A o \in DOMAIN notes :
                 ( /\ IsOpener(notes, tol, o)
                   /\ Cardinality({ n \in DOMAIN notes : Owner(notes, tol, n) = o }) >= 3 )
                 => \E g \in DOMAIN chords : chords[g][1] = o
           /\ \A g, h \in DOMAIN chords : g < h => chords[g][1] < chords[h][1]
           /\ ( /\ Len(notes) >= 3
                /\ \A n \in DOMAIN notes : Abs(notes[n].start - notes[1].start) <= tol )
              => chords = << IndexSeq(notes) >>

\* a returned chord holds a note that is nearer to the key of a group
\* opened later
C9_Witness ==
    /\ Detected
    /\ \E g \in DOMAIN chords :
          \E n \in Range(chords[g]) :
             \E o \in 1..(n - 1) :
                /\ IsOpener(music.tracks[1], call.tolerance_ticks, o)
                /\ o > chords[g][1]
                /\ Abs(music.tracks[1][n].start - music.tracks[1][o].start)
                      < Abs(music.tracks[1][n].start - music.tracks[1][chords[g][1]].start)

Rolled == pc = "roll_done"

\* position of note n in the ascending-pitch order (equal pitches keep
\* their order, as sorted() does), 0-based
PitchRank(notes, n) ==
    Cardinality({ m \in DOMAIN notes :
                    \/ notes[m].pitch < notes[n].pitch
                    \/ (notes[m].pitch = notes[n].pitch /\ m < n) })

LeastStart(notes) ==
    CHOOSE s \in { notes[n].start : n \in DOMAIN notes } :
        \A n \in DOMAIN notes : s <= notes[n].start

\* C10: apply_chord_rolling with pattern upward and interval k gives the
\* note at position i of the ascending-pitch order the onset base + i * k,
\* base the least onset of the chord before the call; ends, pitches and
\* velocities stay as they were.
C10_UpwardRoll ==
    (Rolled /\ call.roll_pattern = "upward") =>
        \A n \in DOMAIN music.tracks[1] :
            /\ music.tracks[1][n].start =
                  LeastStart(input.tracks[1])
                    + PitchRank(input.tracks[1], n) * call.roll_timing_ticks
            /\ music.tracks[1][n].end = input.tracks[1][n].end
            /\ music.tracks[1][n].pitch = input.tracks[1][n].pitch
            /\ music.tracks[1][n].velocity = input.tracks[1][n].velocity

\* Scenario B: pitches 60, 64, 67 at onset 100, interval 10
C10_Witness ==
    /\ Rolled
    /\ call.roll_pattern = "upward"
    /\ call.roll_timing_ticks = 10
    /\ [n \in 1..3 |-> input.tracks[1][n].pitch] = <<60, 64, 67>>
    /\ Len(input.tracks[1]) = 3
    /\ \A n \in 1..3 : input.tracks[1][n].start = 100
    /\ [n \in 1..3 |-> music.tracks[1][n].start] = <<100, 110, 120>>

\* the successor of note a in its pitch lane sorted by onset, or 0 when a
\* is the last note of the lane
LaneSuccessor(notes, a) ==
    IF \E b \in DOMAIN notes : AdjacentInLane(notes, a, b)
    THEN CHOOSE b \in DOMAIN notes : AdjacentInLane(notes, a, b)
    ELSE 0

\* C11: after the overlap pass, a note that overlapped its successor in
\* the pitch lane (end > successor.start) ends at
\* max(start + min_duration_ticks, successor.start - 1); a predecessor
\* that did not overlap keeps its end, the last note of a lane is what it
\* was, and no start, pitch or velocity has changed.
C11_ResolverContract ==
    Resolved =>
        \A t \in DOMAIN input.tracks :
            LET before == input.tracks[t]
                after == music.tracks[t]
            IN /\ Len(after) = Len(before)
               /\ \A a \in DOMAIN before :
                     LET b == LaneSuccessor(before, a)
                     IN /\ after[a].start = before[a].start
                        /\ after[a].pitch = before[a].pitch
                        /\ after[a].velocity = before[a].velocity
                        /\ (b # 0 /\ before[a].end > before[b].start) =>
                              after[a].end =
                                 Max(before[a].start + min_duration_ticks,
                                     before[b].start - 1)
                        /\ (b # 0 /\ before[a].end <= before[b].start) =>
                              after[a].end = before[a].end
                        /\ b = 0 => after[a] = before[a]

\* a lane of three notes given out of onset order: the first overlapped
\* its successor and now ends one tick before it, the second did not
\* overlap and kept its end, the last is unchanged
C11_Witness ==
    /\ Resolved
    /\ \E a, b, c \in DOMAIN input.tracks[1] :
          /\ AdjacentInLane(input.tracks[1], a, b)
          /\ AdjacentInLane(input.tracks[1], b, c)
          /\ a > b
          /\ input.tracks[1][a].end > input.tracks[1][b].start
          /\ input.tracks[1][a].start + min_duration_ticks
                <= input.tracks[1][b].start - 1
          /\ music.tracks[1][a].end = input.tracks[1][b].start - 1
          /\ input.tracks[1][b].end <= input.tracks[1][c].start
          /\ music.tracks[1][b] = input.tracks[1][b]
          /\ music.tracks[1][c] = input.tracks[1][c]

OverlapStep ==
    \/ pc = "basic_tracks" /\ track_idx > Len(music.tracks)
    \/ pc = "adv_overlap"

\* C14: a step run for one track leaves the notes of every other track as
\* they were, and an overlap pass changes a note only when a later note of
\* the same pitch in the same track starts before it ends (and then only
\* its end): notes of different tracks are never shortened against each
\* other.
C14_TracksIndependent ==
    [][ /\ DOMAIN music'.tracks = DOMAIN music.tracks
        /\ track_idx \in DOMAIN music.tracks =>
              \A t \in DOMAIN music.tracks \ {track_idx} :
                  music'.tracks[t] = music.tracks[t]
        /\ OverlapStep =>
              \A t \in DOMAIN music.tracks :
                  /\ DOMAIN music'.tracks[t] = DOMAIN music.tracks[t]
                  /\ \A a \in DOMAIN music.tracks[t] :
                        music'.tracks[t][a] # music.tracks[t][a] =>
                            /\ music'.tracks[t][a] =
                                  [music.tracks[t][a] EXCEPT
                                      !.end = music'.tracks[t][a].end]
                            /\ \E b \in DOMAIN music.tracks[t] :
                                  /\ b # a
                                  /\ music.tracks[t][b].pitch = music.tracks[t][a].pitch
                                  /\ Before(music.tracks[t], a, b)
                                  /\ music.tracks[t][a].end > music.tracks[t][b].start
      ]_vars

\* a pipeline returned a score of two tracks, both humanized, in which a
\* note of track 1 still sounds when a note of the same pitch of track 2
\* starts, and has the end it was passed in with
C14_Witness ==
    /\ Returned
    /\ call.fn = "humanize_midi_advanced"
    /\ Len(music.tracks) = 2
    /\ music.tracks[1] # input.tracks[1]
    /\ music.tracks[2] # input.tracks[2]
    /\ \E a \in DOMAIN music.tracks[1], b \in DOMAIN music.tracks[2] :
          /\ music.tracks[1][a].pitch = music.tracks[2][b].pitch
          /\ music.tracks[1][a].start < music.tracks[2][b].start
          /\ music.tracks[1][a].end > music.tracks[2][b].start
          /\ music.tracks[1][a].end = input.tracks[1][a].end

\* the 0-based indices m + d, m - d (up first) or m - d, m + d (down
\* first) for d, d + 1, ..., those outside 0..n-1 skipped
RECURSIVE AlternateOut(_, _, _, _)
AlternateOut(n, m, d, upFirst) ==
    IF d > n THEN <<>>
    ELSE LET first == IF upFirst THEN m + d ELSE m - d
             second == IF upFirst THEN m - d ELSE m + d
             Kept(x) == IF 0 <= x /\ x < n THEN <<x>> ELSE <<>>
         IN Kept(first) \o Kept(second) \o AlternateOut(n, m, d + 1, upFirst)

\* the order that starts at the middle index m = n div 2
MiddleOut(n, upFirst) == <<n \div 2>> \o AlternateOut(n, n \div 2, 1, upFirst)

\* the roll position (0-based) of sorted index j in an order
RollPosition(order, j) == (CHOOSE k \in DOMAIN order : order[k] = j) - 1

\* after an inside_out roll each note has the onset base + position *
\* interval, its position taken from `order`
InsideOutFollows(order) ==
    \A n \in DOMAIN music.tracks[1] :
        music.tracks[1][n].start =
            LeastStart(input.tracks[1])
              + RollPosition(order, PitchRank(input.tracks[1], n))
                  * call.roll_timing_ticks

\* C15 as stated: inside_out gives the roll positions 0, 1, 2, 3, 4, ...
\* to the sorted indices m, m+1, m-1, m+2, m-2, ...
C15_InsideOutUpFirst ==
    (Rolled /\ call.roll_pattern = "inside_out") =>
        InsideOutFollows(MiddleOut(Len(input.tracks[1]), TRUE))

\* C15 as amended: inside_out gives the roll positions 0, 1, 2, 3, 4, ...
\* to the sorted indices m, m-1, m+1, m-2, m+2, ... (the step below the
\* middle comes before the step above it).
C15_InsideOutDownFirst ==
    (Rolled /\ call.roll_pattern = "inside_out") =>
        InsideOutFollows(MiddleOut(Len(input.tracks[1]), FALSE))

\* pitches 60, 64, 67 at onset 100 rolled inside_out with interval 10:
\* 64 first, then 60, then 67
C15_Witness ==
    /\ Rolled
    /\ call.roll_pattern = "inside_out"
    /\ call.roll_timing_ticks = 10
    /\ Len(input.tracks[1]) = 3
    /\ [n \in 1..3 |-> input.tracks[1][n].pitch] = <<60, 64, 67>>
    /\ \A n \in 1..3 : input.tracks[1][n].start = 100
    /\ [n \in 1..3 |-> music.tracks[1][n].start] = <<110, 100, 120>>

\* one pass for phrase note p with the window taken on the onsets as they
\* are when the pass begins
WindowPass(notes, p, resolution, sel) ==
    [n \in DOMAIN notes |->
        IF Abs(notes[n].start - notes[p].start) < 2 * resolution
        THEN [notes[n] EXCEPT !.start = @ + RandIntAt(5, 25, sel[<<p, n>>])]
        ELSE notes[n]]

RECURSIVE WindowPasses(_, _, _, _, _)
WindowPasses(notes, phrase_endings, k, resolution, sel) ==
    IF k > Len(phrase_endings) THEN notes
    ELSE WindowPasses(WindowPass(notes, phrase_endings[k], resolution, sel),
                      phrase_endings, k + 1, resolution, sel)

PhraseDone == pc = "phrase_done"

\* C16: for each phrase-ending note P (duration >= 480 when the stage
\* starts) the notes delayed on P's account are exactly those whose onset
\* is less than 2 * resolution away from P's onset, both onsets taken when
\* P's pass begins, and each of them gets one delay of [5, 25].
C16_WindowAtPassStart ==
    PhraseDone =>
        LET notes == input.tracks[1]
            phrase_endings == detect_phrase_endings(notes)
        IN \E sel \in [Range(phrase_endings) \X DOMAIN notes -> DrawSel] :
              music.tracks[1] =
                 WindowPasses(notes, phrase_endings, 1, input.resolution, sel)

\* the body of the per-chord loop has just run for a chord
ChordVisited == pc = "adv_roll" /\ chord_idx > 1

RollPatterns == {"upward", "downward", "inside_out", "outside_in"}

\* C17 as stated: the roll pattern of every detected chord is selected,
\* before the roll decision and whether or not the chord is then rolled:
\* after the loop body has run for a chord a pattern has been selected.
C17_PatternForEveryChord ==
    ChordVisited => roll.roll_pattern \in RollPatterns

\* C17 as amended: the roll pattern of a detected chord is selected after
\* the roll decision and only when the decision is to roll: after the loop
\* body has run for a chord, a pattern has been selected if and only if
\* the chord was rolled.
C17_PatternOnlyWhenRolled ==
    ChordVisited =>
        IF roll.rolled
        THEN roll.roll_pattern \in RollPatterns
        ELSE roll.roll_pattern = ""

\* a chord was rolled downward and its onsets rewritten
C17_Witness ==
    /\ ChordVisited
    /\ roll.rolled
    /\ roll.roll_pattern = "downward"
    /\ music.tracks[track_idx] # input.tracks[track_idx]

\* both hands of the current track have been humanized
HandsDone ==
    /\ pc = "adv_phrase"
    /\ Get(Settings, "hand_separation_enabled", FALSE)

\* C18: with hand separation enabled, immediately after the hand stage
\* every note of the track lasts at least min_duration_ticks.
C18_HandStageDuration ==
    HandsDone =>
        \A n \in DOMAIN music.tracks[track_idx] :
            music.tracks[track_idx][n].end - music.tracks[track_idx][n].start
                >= min_duration_ticks

BeatDone == pc = "beat_done"

\* distance of an onset to the nearest beat boundary, and the index of
\* that boundary in the 4-beat measure
BoundaryDistance(start, resolution) ==
    Min(start % resolution, resolution - (start % resolution))

NearestBeat(start, resolution) ==
    IF start % resolution <= resolution - (start % resolution)
    THEN (start \div resolution) % 4
    ELSE (start \div resolution + 1) % 4

\* C19: an onset nearer than resolution / 10 to the nearest beat boundary
\* is on-beat and gets 1.15 on beat 0 of the measure, 1.08 on beat 2 and
\* 0.95 on beats 1 and 3; every other onset gets 0.88.
C19_BeatStrength ==
    BeatDone =>
        LET beat == NearestBeat(call.start, call.resolution)
        IN IF 10 * BoundaryDistance(call.start, call.resolution) < call.resolution
           THEN result = (IF beat = 0 THEN 115 ELSE IF beat = 2 THEN 108 ELSE 95)
           ELSE result = 88

TimingDone == pc = "timing_done"

\* 0.2 tick, and 6 x the mean interval of the call, in 1/BeatScale tick
FifthOfATick == 2 * (BeatScale \div 10)

SixMeans ==
    6 * Settings.chord_roll_mean_timing * call.resolution

\* C20 as stated: the sampled roll interval always lies in
\* [0.2 tick, 6 x mean], for every sample, preset and resolution.
C20_IntervalInRange ==
    TimingDone => (FifthOfATick <= result /\ result <= SixMeans)

\* C20 as amended: the sampled roll interval is at least 0.2 tick, and at
\* most 6 x mean whenever 6 x mean is 0.2 tick or more; when 6 x mean is
\* below 0.2 tick the interval is 0.2 tick.
C20_IntervalInRangeOrFloor ==
    TimingDone =>
        /\ FifthOfATick <= result
        /\ SixMeans >= FifthOfATick => result <= SixMeans
        /\ SixMeans < FifthOfATick => result = FifthOfATick

\* at resolution 480 a sample above 6 x mean was brought down to 6 x mean,
\* which lies above 0.2 tick
C20_Witness ==
    /\ TimingDone
    /\ call.resolution = 480
    /\ FifthOfATick < SixMeans
    /\ result = SixMeans

\* C21: resolve_overlapping_notes resolves overlaps only by shortening the
\* earlier note: for any track, any notes and any min_duration_ticks, no
\* note's end is greater after the call than before it.
C21_EndNeverGrows ==
    Resolved =>
        \A pos \in Positions(music) :
            NoteAt(music, pos).end <= NoteAt(input, pos).end

\* the step that runs humanize_hand on one hand of the current track
HandStep(hand_type) ==
    IF hand_type = "left"
    THEN ChordsDone /\ pc' = "adv_right"
    ELSE pc = "adv_right" /\ pc' = "adv_phrase"

\* the base offsets a group can get: a draw from [-range, range], scaled by
\* the beat strength of the group's first member when accenting is on
BaseOffsets(settings, first_start) ==
    { IF Get(settings, "beat_accenting", FALSE)
      THEN Trunc(d * detect_beat_strength(first_start, settings.resolution),
                 WeightScale)
      ELSE d : d \in (0 - settings.velocity_range)..settings.velocity_range }

Unclamped(v) == 1 < v /\ v < 127

\* C22: in a timing cluster of more than one note with velocity correlation
\* enabled, one base offset in [-range, range] (scaled by the first member's
\* beat-strength factor when accenting is on) is drawn for the whole cluster
\* and every member's velocity change before clamping is that base plus its
\* own jitter in [-4, 4]; hence the unclamped velocity changes of any two
\* members of the cluster differ by at most 8.
C22_ClusterOffsets ==
    [][ \A hand_type \in {"left", "right"} :
          HandStep(hand_type) =>
            LET before == music.tracks[track_idx]
                after == music'.tracks[track_idx]
                hand == IF hand_type = "left" THEN LeftHand(before)
                        ELSE RightHand(before)
                settings == HandSettings(hand_type, Settings)
                groups == group_notes_by_timing(after, hand, 10)
                Change(n) == after[n].velocity - before[n].velocity
            IN Get(settings, "chord_velocity_correlation", FALSE) =>
                 \A g \in DOMAIN groups :
                   LET members == Range(groups[g].members)
                       first == groups[g].members[1]
                   IN Len(groups[g].members) > 1 =>
                        /\ \E base \in BaseOffsets(settings, after[first].start) :
                             \A n \in members :
                               \E jitter \in -4..4 :
                                 after[n].velocity =
                                    Clamp127(before[n].velocity + base + jitter)
                        /\ \A a, b \in members :
                             (Unclamped(after[a].velocity)
                                /\ Unclamped(after[b].velocity))
                             => Abs(Change(a) - Change(b)) <= 8
      ]_vars

\* the right hand of a track held a cluster of two notes whose velocities
\* both moved without reaching a clamp, by amounts 8 apart
C22_Witness ==
    /\ pc = "adv_phrase"
    /\ Get(Settings, "chord_velocity_correlation", FALSE)
    /\ LET before == input.tracks[track_idx]
           after == music.tracks[track_idx]
           groups == group_notes_by_timing(after, RightHand(after), 10)
       IN \E g \in DOMAIN groups :
            \E a, b \in Range(groups[g].members) :
              /\ a # b
              /\ Unclamped(after[a].velocity) /\ Unclamped(after[b].velocity)
              /\ after[a].velocity # before[a].velocity
              /\ Abs((after[a].velocity - before[a].velocity)
                       - (after[b].velocity - before[b].velocity)) = 8

\* max pitch - min pitch over the notes `chord` of a track
PitchSpan(notes, chord) ==
    LET pitches == { notes[n].pitch : n \in Range(chord) }
        highest == CHOOSE p \in pitches : \A q \in pitches : q <= p
        lowest == CHOOSE p \in pitches : \A q \in pitches : p <= q
    IN highest - lowest

JazzEmphasis == Get(Settings, "jazz_chord_emphasis", FALSE)

\* C23: choose_roll_pattern returns only patterns allowed for the chord:
\* with jazz emphasis enabled the result is one of upward, downward,
\* inside_out whatever the pitch span; without it and with pitch span
\* (max - min pitch) > 24 the result is upward or downward; otherwise,
\* span <= 24, each of the four patterns is a possible result.  First
\* conjunct: the pattern a rolled chord got; second conjunct: for a narrow
\* chord about to be visited without jazz emphasis, the loop body can end
\* with each of the four patterns.
C23_PatternAllowed ==
    /\ (ChordVisited /\ roll.rolled) =>
          LET span == PitchSpan(music.tracks[track_idx], chords[chord_idx - 1])
          IN IF JazzEmphasis
             THEN roll.roll_pattern \in {"upward", "downward", "inside_out"}
             ELSE IF span > 24
                  THEN roll.roll_pattern \in {"upward", "downward"}
                  ELSE roll.roll_pattern \in RollPatterns
    /\ ( /\ pc = "adv_roll"
         /\ chord_idx <= Len(chords)
         /\ ~JazzEmphasis
         /\ PitchSpan(music.tracks[track_idx], chords[chord_idx]) <= 24 )
       => \A p \in RollPatterns :
             ENABLED (AdvRollChord /\ roll'.roll_pattern = p)

\* with jazz emphasis a chord spanning more than two octaves was rolled
\* inside_out
C23_Witness ==
    /\ ChordVisited
    /\ roll.rolled
    /\ JazzEmphasis
    /\ PitchSpan(music.tracks[track_idx], chords[chord_idx - 1]) > 24
    /\ roll.roll_pattern = "inside_out"

\* C24: after one overlap-resolution pass, a residual overlap between
\* adjacent notes of a pitch lane exists only where the minimum-duration
\* floor applied: for every adjacent pair sorted by onset, either
\* predecessor.end <= successor.start, or
\* predecessor.end = predecessor.start + min_duration_ticks.
C24_ResidualOnlyAtFloor ==
    Resolved =>
        \A t \in DOMAIN music.tracks :
            \A a, b \in DOMAIN music.tracks[t] :
                AdjacentInLane(music.tracks[t], a, b) =>
                    \/ music.tracks[t][a].end <= music.tracks[t][b].start
                    \/ music.tracks[t][a].end =
                          music.tracks[t][a].start + min_duration_ticks

\* the pass left an adjacent pair overlapping, its predecessor rewritten to
\* last exactly min_duration_ticks, and separated another pair of the lane
C24_Witness ==
    /\ Resolved
    /\ \E a, b, c \in DOMAIN music.tracks[1] :
          /\ AdjacentInLane(music.tracks[1], a, b)
          /\ AdjacentInLane(music.tracks[1], b, c)
          /\ music.tracks[1][a].end # input.tracks[1][a].end
          /\ music.tracks[1][b].end # input.tracks[1][b].end
          /\ music.tracks[1][a].end > music.tracks[1][b].start
          /\ music.tracks[1][a].end =
                music.tracks[1][a].start + min_duration_ticks
          /\ music.tracks[1][b].end <= music.tracks[1][c].start

\* C25: the single overlap-resolution pass is already a fixpoint: running
\* resolve_overlapping_notes a second time on its own output, with the same
\* min_duration_ticks, changes no note's start or end.
C25_SecondPassChangesNothing ==
    [][ pc = "resolve_done" =>
          \A pos \in Positions(music) :
            /\ NoteAt(music', pos).start = NoteAt(music, pos).start
            /\ NoteAt(music', pos).end = NoteAt(music, pos).end ]_vars

\* the second pass ran on a score the first pass had changed and that still
\* holds an overlapping adjacent pair
C25_Witness ==
    /\ pc = "resolve_twice"
    /\ music # input
    /\ \E a, b \in DOMAIN music.tracks[1] :
          /\ AdjacentInLane(music.tracks[1], a, b)
          /\ music.tracks[1][a].end > music.tracks[1][b].start

\* C26: for every pattern name (upward, downward, inside_out, outside_in, or
\* an unrecognized name) and every chord of n >= 3 notes, the roll order is
\* a permutation of the chord's notes: each note's onset is rewritten
\* exactly once with a distinct position 0..n-1 (so the inside_out
\* index-range guard never discards a note), no rewritten onset is earlier
\* than the chord's minimum original onset, and the note at position 0 gets
\* exactly that minimum.  With interval t the onsets after the call are
\* base + k * t, one note for each k in 0..n-1 (all n notes at base when
\* t = 0).
C26_RollIsPermutation ==
    Rolled =>
        LET before == input.tracks[1]
            after == music.tracks[1]
            n == Len(before)
            base == LeastStart(before)
            t == call.roll_timing_ticks
            At(k) == { j \in DOMAIN after : after[j].start = base + k * t }
        IN /\ \A k \in 0..(n - 1) :
                 Cardinality(At(k)) = IF t = 0 THEN n ELSE 1
           /\ \A j \in DOMAIN after : after[j].start >= base
           /\ At(0) # {}

\* a chord of four notes was rolled inside_out with a positive interval
C26_Witness ==
    /\ Rolled
    /\ call.roll_pattern = "inside_out"
    /\ call.roll_timing_ticks > 0
    /\ Len(music.tracks[1]) = 4
    /\ \E j \in DOMAIN music.tracks[1] :
          music.tracks[1][j].start
             = LeastStart(input.tracks[1]) + 3 * call.roll_timing_ticks

\* C27: neither pipeline adds, removes or reorders notes in any track, and
\* no stage changes a note's pitch: after any run, and after every stage of
\* it, each track holds the same notes in the same order with their input
\* pitches.
C27_NotesKept ==
    /\ DOMAIN music.tracks = DOMAIN input.tracks
    /\ \A t \in DOMAIN music.tracks :
          /\ DOMAIN music.tracks[t] = DOMAIN input.tracks[t]
          /\ \A n \in DOMAIN music.tracks[t] :
                music.tracks[t][n].pitch = input.tracks[t][n].pitch

\* a run returned a track of several pitches whose notes it moved and whose
\* order in the track is not the order of the onsets
C27_Witness ==
    /\ Returned
    /\ \E t \in DOMAIN music.tracks :
          /\ music.tracks[t] # input.tracks[t]
          /\ \E a, b \in DOMAIN music.tracks[t] :
                /\ a < b
                /\ music.tracks[t][a].pitch # music.tracks[t][b].pitch
                /\ music.tracks[t][a].start > music.tracks[t][b].start
                /\ music.tracks[t][a].start # input.tracks[t][a].start

====
